---------------------------- MODULE Spec2Model ----------------------------
(***************************************************************************)
(* Price calculator (kaustavpaul/price-calculator): the SQLite store of    *)
(* src/src/database.py, the currency helper of src/src/utils.py and the    *)
(* pricing computation of calculator_tab in src/app.py.                    *)
(*                                                                         *)
(* Numbers.  The program computes in Python floats.  The model computes    *)
(* in exact rationals [n, d] (d > 0, lowest terms); the float rounding     *)
(* error of a single operation is the "rounding tolerance" the             *)
(* specification speaks of and is not modelled.  None is the rational      *)
(* with d = 0.                                                             *)
(***************************************************************************)
EXTENDS Integers, Sequences, FiniteSets, TLC

VARIABLES
    settings,   \* table settings: [exists, rows]
    items,      \* table items: [exists, rows]
    now,        \* CURRENT_TIMESTAMP of the database
    last,       \* the last store call: its name, arguments and return value
    written,    \* the values of the last update_settings that returned True
    ct,         \* the frame of one run of calculator_tab (its locals)
    cv,         \* the frame of one use of convert_currency
    rate_cache  \* st.cache_data entry of fetch_real_time_exchange_rate

vars == <<settings, items, now, last, written, ct, cv, rate_cache>>

-----------------------------------------------------------------------------
(* Float arithmetic, as exact rationals.                                   *)

Abs(x) == IF x < 0 THEN -x ELSE x

RECURSIVE GCD(_, _)
GCD(a, b) == IF b = 0 THEN a ELSE GCD(b, a % b)

\* n/d in lowest terms with a positive denominator (d # 0).
Rat(n, d) ==
    LET g == GCD(Abs(n), Abs(d))
        s == IF d < 0 THEN -1 ELSE 1
    IN  [n |-> (s * n) \div g, d |-> (s * d) \div g]

Int2R(k) == [n |-> k, d |-> 1]

\* An amount given in hundredths (two decimals, as the number inputs show).
Money(c) == Rat(c, 100)

None == [n |-> 0, d |-> 0]

Zero == Int2R(0)

\* Sums, products and quotients reduce by the common factors first, so that
\* the intermediate integers stay small.
RAdd(a, b) ==
    LET g == GCD(a.d, b.d)
    IN  Rat(a.n * (b.d \div g) + b.n * (a.d \div g), (a.d \div g) * b.d)

RMul(a, b) ==
    LET g1 == GCD(Abs(a.n), b.d)
        g2 == GCD(Abs(b.n), a.d)
    IN  Rat((a.n \div g1) * (b.n \div g2), (a.d \div g2) * (b.d \div g1))

\* 1 / b for b # 0.
RInv(b) == IF b.n < 0 THEN [n |-> -b.d, d |-> -b.n] ELSE [n |-> b.d, d |-> b.n]

\* a / b for b # 0 (Python raises ZeroDivisionError for b = 0: see the callers).
RDiv(a, b) == RMul(a, RInv(b))

RLe(a, b) ==
    LET g == GCD(a.d, b.d)
    IN  a.n * (b.d \div g) <= b.n * (a.d \div g)

RLt(a, b) ==
    LET g == GCD(a.d, b.d)
    IN  a.n * (b.d \div g) < b.n * (a.d \div g)

\* Python truthiness of a float: 0.0 is false, everything else is true.
Truthy(x) == x.n # 0

-----------------------------------------------------------------------------
(* The store: src/src/database.py (and its copy at the top of src/app.py). *)

DEFAULT_TAX_RATE == Money(825)

DEFAULT_USD_TO_INR_RATE == Money(8325)

DefaultSettings ==
    [tax_rate |-> DEFAULT_TAX_RATE, usd_to_inr_rate |-> DEFAULT_USD_TO_INR_RATE]

\* The row INSERTed by init_database when the settings table is empty.
DefaultRow ==
    [id |-> 1, tax_rate |-> DEFAULT_TAX_RATE,
     usd_to_inr_rate |-> DEFAULT_USD_TO_INR_RATE]

NoTable == [exists |-> FALSE, rows |-> {}]

\* SELECT * FROM settings WHERE id = 1
SettingsRow1(tbl) == {r \in tbl.rows : r.id = 1}

\* Faulty variant of GetSettings: the defaults only when no row has id 1; a
\* failed connection or read yields no values.
GetSettingsNoneOnFailure(tbl, fail) ==
    IF fail \/ ~tbl.exists
    THEN [tax_rate |-> None, usd_to_inr_rate |-> None]
    ELSE IF SettingsRow1(tbl) = {}
    THEN DefaultSettings
    ELSE LET r == CHOOSE r \in SettingsRow1(tbl) : TRUE
         IN  [tax_rate |-> r.tax_rate, usd_to_inr_rate |-> r.usd_to_inr_rate]

\* get_settings: the defaults when the connection or the read fails (a
\* missing table makes the read raise) and when no row has id 1.
GetSettings(tbl, fail) ==
    IF fail \/ ~tbl.exists \/ SettingsRow1(tbl) = {}
    THEN DefaultSettings
    ELSE LET r == CHOOSE r \in SettingsRow1(tbl) : TRUE
         IN  [tax_rate |-> r.tax_rate, usd_to_inr_rate |-> r.usd_to_inr_rate]

\* update_settings: UPDATE settings SET ... WHERE id = 1.  False when the
\* connection or the statement fails (a missing table makes it raise); True
\* otherwise, also when no row has id 1 and nothing is written.
UpdateSettingsOk(tbl, fail) == ~fail /\ tbl.exists

UpdateSettingsRows(tbl, tax_rate, usd_to_inr_rate) ==
    {IF r.id = 1
     THEN [r EXCEPT !.tax_rate = tax_rate, !.usd_to_inr_rate = usd_to_inr_rate]
     ELSE r : r \in tbl.rows}

ItemIds(tbl) == {r.id : r \in tbl.rows}

\* The NOT NULL columns add_item binds from item_data (None binds as NULL).
NotNullOk(d) ==
    /\ d.name # "NULL"
    /\ d.price # None
    /\ d.shipping # None

\* Faulty variant of AddItemOk: the id column is not a PRIMARY KEY.
AddItemOkWithoutKey(tbl, d, fail) ==
    /\ ~fail
    /\ tbl.exists
    /\ NotNullOk(d)

\* add_item: False when the connection or the INSERT fails: a missing table,
\* a NOT NULL column given None, an id already present (PRIMARY KEY).
AddItemOk(tbl, d, fail) ==
    /\ ~fail
    /\ tbl.exists
    /\ NotNullOk(d)
    /\ d.id \notin ItemIds(tbl)

\* The row INSERTed: item_data and the two CURRENT_TIMESTAMP columns.
ItemRow(d, t) ==
    [id |-> d.id, name |-> d.name, category |-> d.category,
     price |-> d.price, price_currency |-> d.price_currency,
     additional_cost |-> d.additional_cost,
     additional_cost_currency |-> d.additional_cost_currency,
     shipping |-> d.shipping, shipping_currency |-> d.shipping_currency,
     delivery_charge_us |-> d.delivery_charge_us,
     marketing_budget |-> d.marketing_budget,
     import_cost |-> d.import_cost, import_currency |-> d.import_currency,
     margin |-> d.margin, margin_type |-> d.margin_type,
     final_currency |-> d.final_currency, final_price |-> d.final_price,
     final_price_usd |-> d.final_price_usd,
     final_inr_with_budget_and_margin |-> d.final_inr_with_budget_and_margin,
     created_at |-> t, updated_at |-> t]

AddItemRows(tbl, d, t) == tbl.rows \cup {ItemRow(d, t)}

-----------------------------------------------------------------------------
(* The pricing computation: calculator_tab, src/app.py lines 536-601.      *)

\* One "if <currency> == 'INR' and <amount> is not None: total_inr += <amount>".
SumInr(total, currency, amount) ==
    IF currency = "INR" /\ amount # None THEN RAdd(total, amount) ELSE total

\* Faulty variant of AddDelivery: the charge is added without converting it.
AddDeliveryUnconverted(total, delivery, rate) ==
    IF delivery # None THEN RAdd(total, delivery) ELSE total

\* total_inr += delivery_charge_us * settings['usd_to_inr_rate']
AddDelivery(total, delivery, rate) ==
    IF delivery # None THEN RAdd(total, RMul(delivery, rate)) ELSE total

\* "<x> / settings['usd_to_inr_rate'] if settings['usd_to_inr_rate'] else 0.0"
UsdEquiv(x, rate) == IF Truthy(rate) THEN RDiv(x, rate) ELSE Zero

\* marketing_budget = total_inr * 0.10
MarketingBudget(total) == RMul(total, Rat(10, 100))

\* Faulty variant of MarginPercent: the tier boundaries are exclusive.
MarginPercentExclusive(total) ==
    IF RLt(total, Int2R(5000)) THEN 50
    ELSE IF RLt(total, Int2R(10000)) THEN 40
    ELSE 30

\* The if/elif chain on total_inr; its else branch gives 0.
MarginPercent(total) ==
    IF RLe(total, Int2R(5000)) THEN 50
    ELSE IF RLt(Int2R(5000), total) /\ RLe(total, Int2R(10000)) THEN 40
    ELSE IF RLt(Int2R(10000), total) THEN 30
    ELSE 0

\* margin_value = total_inr * margin_percent / 100
MarginValue(total, percent) == RDiv(RMul(total, Int2R(percent)), Int2R(100))

\* Faulty variant of FinalInr: the marketing budget is left out of the final price.
FinalInrWithoutBudget(total, budget, margin) == RAdd(total, margin)

\* final_inr_with_budget_and_margin = total_inr + marketing_budget + margin_value
FinalInr(total, budget, margin) == RAdd(RAdd(total, budget), margin)

\* f"{margin_percent}%"
MarginType(percent) ==
    CASE percent = 50 -> "50%"
      [] percent = 40 -> "40%"
      [] percent = 30 -> "30%"
      [] OTHER -> "0%"

\* "not item_name or purchase_price is None or purchase_price <= 0" is the
\* error branch of the form; this is its negation.
FormValid(in) ==
    /\ in.item_name # ""
    /\ in.purchase_price # None
    /\ RLt(Zero, in.purchase_price)

\* The item_data dict built on submission (app.py's add_item has no category
\* column to bind; the column's DEFAULT applies).
ItemData(id, f) ==
    [id |-> id, name |-> f.in.item_name, category |-> "Uncategorized",
     price |-> f.in.purchase_price, price_currency |-> f.in.purchase_currency,
     additional_cost |-> f.in.additional_cost,
     additional_cost_currency |-> f.in.additional_cost_currency,
     shipping |-> f.in.shipping_cost, shipping_currency |-> f.in.shipping_currency,
     delivery_charge_us |-> f.in.delivery_charge_us,
     marketing_budget |-> f.marketing_budget,
     import_cost |-> Zero, import_currency |-> "INR",
     margin |-> f.margin_value, margin_type |-> MarginType(f.margin_percent),
     final_currency |-> "INR", final_price |-> f.total_inr,
     final_price_usd |-> f.final_price_usd,
     final_inr_with_budget_and_margin |-> f.final_inr_with_budget_and_margin]

\* init_database runs CREATE TABLE items, CREATE TABLE settings, SELECT
\* COUNT(*) and the INSERT of the default row, then commits.  The CREATE
\* statements take effect at once (no transaction is open), so a call that
\* fails at statement number stage leaves what the earlier statements made:
\* stage 0 fails before anything, 1 after the items table, 2 after the
\* settings table, 3 is the call that returns True.
InitStages == 0 .. 3

InitDatabaseItems(tbl, stage) ==
    IF stage >= 1 THEN [tbl EXCEPT !.exists = TRUE] ELSE tbl

\* Faulty variant of InitDatabaseSettings: the default row is inserted
\* without the COUNT(*) test.
InitDatabaseSettingsAlwaysInserts(tbl, stage) ==
    IF stage < 2 THEN tbl
    ELSE IF stage = 3
         THEN [exists |-> TRUE, rows |-> tbl.rows \cup {DefaultRow}]
         ELSE [tbl EXCEPT !.exists = TRUE]

InitDatabaseSettings(tbl, stage) ==
    IF stage < 2 THEN tbl
    ELSE IF stage = 3 /\ tbl.rows = {}
         THEN [exists |-> TRUE, rows |-> {DefaultRow}]
         ELSE [tbl EXCEPT !.exists = TRUE]

\* Faulty variant of DeleteItemRows: the WHERE clause is lost.
DeleteItemRowsAll(tbl, item_id) == {}

\* delete_item: DELETE FROM items WHERE id = ?; True also when no row matches.
DeleteItemRows(tbl, item_id) == {r \in tbl.rows : r.id # item_id}

\* Faulty variant of ItemsCallOk: a statement on a missing table passes.
ItemsCallOkWithoutTable(tbl, fail) == ~fail

\* The statement of a store call on the items table runs: the connection opens
\* and the table is there.
ItemsCallOk(tbl, fail) == ~fail /\ tbl.exists

\* The ways of listing all of rows, each row once.
Listings(rows) ==
    {s \in [1 .. Cardinality(rows) -> rows] :
        \A i, j \in DOMAIN s : i # j => s[i] # s[j]}

\* Faulty variant of GetAllItems: ORDER BY created_at, oldest first.
GetAllItemsAscending(tbl, fail) ==
    IF ~ItemsCallOk(tbl, fail) THEN {<< >>}
    ELSE {s \in Listings(tbl.rows) :
            \A i, j \in DOMAIN s : i < j => s[i].created_at <= s[j].created_at}

\* get_all_items: SELECT * FROM items ORDER BY created_at DESC, as the set of
\* results SQLite may produce (rows with equal created_at come in any order);
\* the empty frame when the connection or the read fails.
GetAllItems(tbl, fail) ==
    IF ~ItemsCallOk(tbl, fail) THEN {<< >>}
    ELSE {s \in Listings(tbl.rows) :
            \A i, j \in DOMAIN s : i < j => s[i].created_at >= s[j].created_at}

ItemColumns ==
    {"id", "name", "category", "price", "price_currency", "additional_cost",
     "additional_cost_currency", "shipping", "shipping_currency",
     "delivery_charge_us", "marketing_budget", "import_cost", "import_currency",
     "margin", "margin_type", "final_currency", "final_price", "final_price_usd",
     "final_inr_with_budget_and_margin", "created_at", "updated_at"}

\* update_item_field: UPDATE items SET <field> = ?, updated_at =
\* CURRENT_TIMESTAMP WHERE id = ?.  The statement fails for a field that is no
\* column and for an id taken by another row; it succeeds when no row matches.
UpdateItemFieldOk(tbl, item_id, field, value, fail) ==
    /\ ItemsCallOk(tbl, fail)
    /\ field \in ItemColumns
    /\ (field = "id" /\ item_id \in ItemIds(tbl))
           => value \notin (ItemIds(tbl) \ {item_id})

\* Faulty variant of UpdateItemFieldRows: a new price is carried over into
\* final_price.
UpdateItemFieldRowsRepricing(tbl, item_id, field, value, t) ==
    {IF r.id = item_id
     THEN [[r EXCEPT ![field] = value] EXCEPT
             !.updated_at = t,
             !.final_price = IF field = "price" THEN value ELSE @]
     ELSE r : r \in tbl.rows}

UpdateItemFieldRows(tbl, item_id, field, value, t) ==
    {IF r.id = item_id
     THEN [[r EXCEPT ![field] = value] EXCEPT !.updated_at = t]
     ELSE r : r \in tbl.rows}

-----------------------------------------------------------------------------
(* The summary section of calculator_tab: src/app.py lines 606, 685-697.   *)

\* items_df['final_price'].sum()
RECURSIVE SumFinalPrice(_)
SumFinalPrice(df) ==
    IF df = << >> THEN Zero
    ELSE RAdd(Head(df).final_price, SumFinalPrice(Tail(df)))

\* Faulty variant of Summarize: the tax rate is applied as a fraction.
SummarizeRateAsFraction(items_df, s) ==
    LET subtotal   == IF Len(items_df) # 0 THEN SumFinalPrice(items_df) ELSE Zero
        tax_amount == RMul(subtotal, s.tax_rate)
    IN  [subtotal |-> subtotal, tax_amount |-> tax_amount,
         total |-> RAdd(subtotal, tax_amount)]

\* subtotal = items_df['final_price'].sum() if not items_df.empty else 0.0
\* tax_amount = subtotal * (settings['tax_rate'] / 100)
\* total = subtotal + tax_amount
Summarize(items_df, s) ==
    LET subtotal   == IF Len(items_df) # 0 THEN SumFinalPrice(items_df) ELSE Zero
        tax_amount == RMul(subtotal, RDiv(s.tax_rate, Int2R(100)))
    IN  [subtotal |-> subtotal, tax_amount |-> tax_amount,
         total |-> RAdd(subtotal, tax_amount)]

-----------------------------------------------------------------------------
(* convert_currency: src/src/utils.py lines 19-24, src/app.py lines 386-397. *)

Value(x) == [kind |-> "value", val |-> x]

\* A true division by 0.0 raises ZeroDivisionError.
Raised == [kind |-> "ZeroDivisionError", val |-> Zero]

\* Faulty variant of ConvertCurrency: a code that is not recognised is taken as USD.
ConvertCurrencyUnknownAsUsd(amount, from_curr, to_curr, rate) ==
    IF from_curr = to_curr THEN Value(amount)
    ELSE IF to_curr = "INR" THEN Value(RMul(amount, rate))
    ELSE IF from_curr = "INR"
         THEN IF rate.n = 0 THEN Raised ELSE Value(RDiv(amount, rate))
    ELSE Value(RMul(amount, rate))

\* Faulty variant of ConvertCurrency: INR -> USD multiplies by the rate.
ConvertCurrencyMultipliesBack(amount, from_curr, to_curr, rate) ==
    IF from_curr = to_curr THEN Value(amount)
    ELSE IF from_curr = "USD" /\ to_curr = "INR" THEN Value(RMul(amount, rate))
    ELSE IF from_curr = "INR" /\ to_curr = "USD" THEN Value(RMul(amount, rate))
    ELSE Value(amount)

ConvertCurrency(amount, from_curr, to_curr, rate) ==
    IF from_curr = to_curr THEN Value(amount)
    ELSE IF from_curr = "USD" /\ to_curr = "INR" THEN Value(RMul(amount, rate))
    ELSE IF from_curr = "INR" /\ to_curr = "USD"
         THEN IF rate.n = 0 THEN Raised ELSE Value(RDiv(amount, rate))
    ELSE Value(amount)

-----------------------------------------------------------------------------
(* fetch_real_time_exchange_rate: src/src/utils.py lines 8-17.             *)

\* What the rate service may answer to one requests.get: the request raises,
\* the status is not 200, the body has no rates.INR, rates.INR is not a
\* number, or rates.INR is a rate.
ResponseKinds == {"exception", "status", "missing", "malformed", "rate"}

FetchedRates == {Money(8350)}

Responses == [kind : ResponseKinds, rate : FetchedRates]

\* The answers the service would give to a first and to a second request.
ResponseSeqs == [1 .. 2 -> Responses]

\* Lines 11-17 for one response: float(response.json()["rates"]["INR"]) when
\* the status is 200, None after any exception and for any other status.
ResponseRate(resp) == IF resp.kind = "rate" THEN resp.rate ELSE None

\* Faulty variant of FetchRate: a second request is made when the first fails.
FetchRateRetrying(resps) ==
    IF ResponseRate(resps[1]) = None THEN ResponseRate(resps[2])
    ELSE ResponseRate(resps[1])

\* The function body: one requests.get, and nothing after it.
FetchRate(resps) == ResponseRate(resps[1])

\* @st.cache_data(ttl=3600): the value returned is kept, None included, and
\* returned without running the body until the entry expires.
NoEntry == [held |-> FALSE, value |-> None]

Entry(value) == [held |-> TRUE, value |-> value]

-----------------------------------------------------------------------------
(* Input values.  The widgets of calculator_tab: a free number input for   *)
(* the purchase price (None until typed, >= 0, two decimals) and select    *)
(* boxes for the other amounts and the currencies.                         *)

PurchasePrices ==
    {None, Zero, Money(400000), Money(260125), Money(260126),
     Money(760125), Money(760126)}

FormCurrencies == {"INR", "USD"}

AdditionalCosts == {Int2R(150), Int2R(50)}

ShippingCosts == {Int2R(1000), Int2R(500)}

DeliveryCharges == {Int2R(15), Int2R(10)}

ItemNames == {"", "Widget"}

\* Values update_settings is called with; it checks none of them.
TaxRates == {Money(825), Money(500)}

UsdToInrRates == {Money(8325), Money(8000), Zero, Money(-100)}

Ids == {"id1", "id2"}

FormInputs ==
    [item_name : ItemNames,
     purchase_price : PurchasePrices, purchase_currency : FormCurrencies,
     additional_cost : AdditionalCosts, additional_cost_currency : FormCurrencies,
     shipping_cost : ShippingCosts, shipping_currency : FormCurrencies,
     delivery_charge_us : DeliveryCharges,
     submitted : BOOLEAN]

\* A frame of calculator_tab before its first statement.
CtFrame(pc, in) ==
    [pc |-> pc, in |-> in, settings |-> DefaultSettings,
     total_inr |-> Zero, usd_equiv |-> Zero, marketing_budget |-> Zero,
     margin_percent |-> 0, margin_value |-> Zero,
     final_inr_with_budget_and_margin |-> Zero, final_price_usd |-> Zero,
     item_data |-> {}]

NoInputs == CHOOSE in \in FormInputs : in.purchase_price = None /\ ~in.submitted

CtIdle == CtFrame("idle", NoInputs)

Call(op, arg, ret) == [op |-> op, arg |-> arg, ret |-> ret]

\* No update_settings has returned True yet.  matched: the UPDATE found the
\* row with id 1.
NoWrite ==
    [done |-> FALSE, tax_rate |-> Zero, usd_to_inr_rate |-> Zero, matched |-> FALSE]

\* The frame of calculator_tab when it reaches the form: lines 536-565 run
\* on the inputs in with the settings s that get_settings returned.
PricedFrame(in, s) ==
    LET sum     == SumInr(SumInr(SumInr(Zero, in.purchase_currency, in.purchase_price),
                                 in.additional_cost_currency, in.additional_cost),
                          in.shipping_currency, in.shipping_cost)
        total   == AddDelivery(sum, in.delivery_charge_us, s.usd_to_inr_rate)
        budget  == MarketingBudget(total)
        percent == MarginPercent(total)
        margin  == MarginValue(total, percent)
        final   == FinalInr(total, budget, margin)
    IN  [CtFrame("form", in) EXCEPT
            !.settings = s, !.total_inr = total,
            !.usd_equiv = UsdEquiv(total, s.usd_to_inr_rate),
            !.marketing_budget = budget, !.margin_percent = percent,
            !.margin_value = margin,
            !.final_inr_with_budget_and_margin = final,
            !.final_price_usd = UsdEquiv(final, s.usd_to_inr_rate)]

-----------------------------------------------------------------------------
(* calculator_tab, statement by statement.                                 *)

\* settings = get_settings(); total_inr = 0.0
ct_get_settings ==
    /\ ct.pc = "get_settings"
    /\ \E fail \in BOOLEAN :
        ct' = [ct EXCEPT !.pc = "sum_inr",
                         !.settings = GetSettings(settings, fail),
                         !.total_inr = Zero]
    /\ UNCHANGED <<settings, items, now, last, written, cv, rate_cache>>

\* The three "if ... == 'INR' ...: total_inr += ..." statements.
ct_sum_inr ==
    /\ ct.pc = "sum_inr"
    /\ ct' = [ct EXCEPT
                !.pc = "delivery",
                !.total_inr =
                    SumInr(SumInr(SumInr(ct.total_inr,
                                         ct.in.purchase_currency, ct.in.purchase_price),
                                  ct.in.additional_cost_currency, ct.in.additional_cost),
                           ct.in.shipping_currency, ct.in.shipping_cost)]
    /\ UNCHANGED <<settings, items, now, last, written, cv, rate_cache>>

ct_add_delivery ==
    /\ ct.pc = "delivery"
    /\ ct' = [ct EXCEPT
                !.pc = "usd_equiv",
                !.total_inr = AddDelivery(ct.total_inr, ct.in.delivery_charge_us,
                                          ct.settings.usd_to_inr_rate)]
    /\ UNCHANGED <<settings, items, now, last, written, cv, rate_cache>>

ct_usd_equiv ==
    /\ ct.pc = "usd_equiv"
    /\ ct' = [ct EXCEPT
                !.pc = "marketing_budget",
                !.usd_equiv = UsdEquiv(ct.total_inr, ct.settings.usd_to_inr_rate)]
    /\ UNCHANGED <<settings, items, now, last, written, cv, rate_cache>>

ct_marketing_budget ==
    /\ ct.pc = "marketing_budget"
    /\ ct' = [ct EXCEPT !.pc = "margin",
                         !.marketing_budget = MarketingBudget(ct.total_inr)]
    /\ UNCHANGED <<settings, items, now, last, written, cv, rate_cache>>

ct_margin ==
    /\ ct.pc = "margin"
    /\ LET percent == MarginPercent(ct.total_inr)
       IN  ct' = [ct EXCEPT !.pc = "final",
                            !.margin_percent = percent,
                            !.margin_value = MarginValue(ct.total_inr, percent)]
    /\ UNCHANGED <<settings, items, now, last, written, cv, rate_cache>>

ct_final ==
    /\ ct.pc = "final"
    /\ LET final == FinalInr(ct.total_inr, ct.marketing_budget, ct.margin_value)
       IN  ct' = [ct EXCEPT
                    !.pc = "form",
                    !.final_inr_with_budget_and_margin = final,
                    !.final_price_usd = UsdEquiv(final, ct.settings.usd_to_inr_rate)]
    /\ UNCHANGED <<settings, items, now, last, written, cv, rate_cache>>

\* The form: on a valid submission item_data is built (its id a fresh uuid4)
\* and handed to add_item.
ct_form ==
    /\ ct.pc = "form"
    /\ IF ct.in.submitted /\ FormValid(ct.in)
       THEN \E id \in Ids \ ItemIds(items), fail \in BOOLEAN :
              LET d  == ItemData(id, ct)
                  ok == AddItemOk(items, d, fail)
              IN  /\ ct' = [ct EXCEPT !.pc = "done", !.item_data = {d}]
                  /\ items' = IF ok THEN [items EXCEPT !.rows = AddItemRows(items, d, now)]
                                    ELSE items
                  /\ last' = Call("add_item", d, ok)
       ELSE /\ ct' = [ct EXCEPT !.pc = "done"]
            /\ UNCHANGED <<items, last>>
    /\ UNCHANGED <<settings, now, written, cv, rate_cache>>

CvIdle ==
    [pc |-> "idle", amount |-> Zero, from_curr |-> "USD", to_curr |-> "USD",
     rate |-> Zero, kind |-> "none", result |-> Zero, back_kind |-> "none",
     back |-> Zero]

\* One run of calculator_tab on a store that init_database has set up and
\* update_settings may have written.
InitPricing ==
    /\ \E t \in TaxRates, r \in UsdToInrRates :
         settings = [exists |-> TRUE,
                     rows |-> {[id |-> 1, tax_rate |-> t, usd_to_inr_rate |-> r]}]
    /\ items = [exists |-> TRUE, rows |-> {}]
    /\ now = 0
    /\ last = Call("init_database", 3, TRUE)
    /\ written = NoWrite
    /\ \E in \in FormInputs : ct = CtFrame("get_settings", in)
    /\ cv = CvIdle
    /\ rate_cache = NoEntry

NextPricing ==
    \/ ct_get_settings
    \/ ct_sum_inr
    \/ ct_add_delivery
    \/ ct_usd_equiv
    \/ ct_marketing_budget
    \/ ct_margin
    \/ ct_final
    \/ ct_form

SpecPricing == InitPricing /\ [][NextPricing]_vars

-----------------------------------------------------------------------------
(* One use of convert_currency, and the conversion back of what it returned. *)

ConvAmounts == {Zero, Int2R(100), Money(1999), Money(-500)}

\* "EUR" and "usd" are codes the helper does not recognise.
ConvCurrencies == {"USD", "INR", "EUR", "usd"}

ConvRates == {Money(8325), Money(1), Zero, Money(-100)}

\* result = convert_currency(amount, from_curr, to_curr, rate)
cv_convert ==
    /\ cv.pc = "call"
    /\ LET r == ConvertCurrency(cv.amount, cv.from_curr, cv.to_curr, cv.rate)
       IN  cv' = [cv EXCEPT !.pc = IF r.kind = "value" THEN "returned" ELSE "raised",
                            !.kind = r.kind, !.result = r.val]
    /\ UNCHANGED <<settings, items, now, last, written, ct, rate_cache>>

\* back = convert_currency(result, to_curr, from_curr, rate)
cv_convert_back ==
    /\ cv.pc = "returned"
    /\ LET r == ConvertCurrency(cv.result, cv.to_curr, cv.from_curr, cv.rate)
       IN  cv' = [cv EXCEPT !.pc = IF r.kind = "value" THEN "done" ELSE "raised",
                            !.back_kind = r.kind, !.back = r.val]
    /\ UNCHANGED <<settings, items, now, last, written, ct, rate_cache>>

InitConvert ==
    /\ settings = [exists |-> TRUE, rows |-> {DefaultRow}]
    /\ items = [exists |-> TRUE, rows |-> {}]
    /\ now = 0
    /\ last = Call("init_database", 3, TRUE)
    /\ written = NoWrite
    /\ ct = CtIdle
    /\ rate_cache = NoEntry
    /\ \E a \in ConvAmounts, f \in ConvCurrencies, t \in ConvCurrencies, r \in ConvRates :
         cv = [CvIdle EXCEPT !.pc = "call", !.amount = a, !.from_curr = f,
                             !.to_curr = t, !.rate = r]

NextConvert ==
    \/ cv_convert
    \/ cv_convert_back

SpecConvert == InitConvert /\ [][NextConvert]_vars

-----------------------------------------------------------------------------
(* The store and the calls made on it (Spec).  Every call either runs or   *)
(* fails on the connection or the statement (fail); a failing call changes *)
(* nothing.                                                                *)

MaxItems == 2

MaxClock == 1

StoreTaxRates == {Money(500)}

StoreRates == {Money(8000), Zero}

\* The submissions made through the form: 4000 + 150 + 1000 INR, 15 USD.
StoreInputs ==
    {in \in FormInputs :
        /\ in.submitted /\ in.item_name = "Widget"
        /\ in.purchase_price = Money(400000) /\ in.purchase_currency = "INR"
        /\ in.additional_cost = Int2R(150) /\ in.additional_cost_currency = "INR"
        /\ in.shipping_cost = Int2R(1000) /\ in.shipping_currency = "INR"
        /\ in.delivery_charge_us = Int2R(15)}

\* The item_data a caller of add_item passes: priced at the default settings,
\* under any id.
StoreItemData ==
    {ItemData(id, PricedFrame(in, DefaultSettings)) : id \in Ids, in \in StoreInputs}

\* An id that no item is ever given.
UnknownId == "id3"

\* The (field, value) pairs update_item_field is called with.
FieldPatches ==
    {<<"price", Money(500000)>>, <<"id", "id2">>, <<"created_at", 0>>,
     <<"no_such_column", Zero>>}

init_database ==
    /\ \E stage \in InitStages :
         /\ items' = InitDatabaseItems(items, stage)
         /\ settings' = InitDatabaseSettings(settings, stage)
         /\ last' = Call("init_database", stage, stage = 3)
    /\ UNCHANGED <<now, written, ct, cv, rate_cache>>

get_settings ==
    /\ \E fail \in BOOLEAN :
         last' = Call("get_settings", fail \/ ~settings.exists,
                      GetSettings(settings, fail))
    /\ UNCHANGED <<settings, items, now, written, ct, cv, rate_cache>>

update_settings(tax_rate, usd_to_inr_rate) ==
    /\ \E fail \in BOOLEAN :
         LET ok == UpdateSettingsOk(settings, fail)
         IN  /\ settings' =
                    IF ok
                    THEN [settings EXCEPT
                            !.rows = UpdateSettingsRows(settings, tax_rate, usd_to_inr_rate)]
                    ELSE settings
             /\ last' = Call("update_settings", <<tax_rate, usd_to_inr_rate>>, ok)
             /\ written' =
                    IF ok
                    THEN [done |-> TRUE, tax_rate |-> tax_rate,
                          usd_to_inr_rate |-> usd_to_inr_rate,
                          matched |-> SettingsRow1(settings) # {}]
                    ELSE written
    /\ UNCHANGED <<items, now, ct, cv, rate_cache>>

\* A run of calculator_tab in which the form is submitted with valid inputs:
\* get_settings, the pricing, item_data and add_item.
calculator_tab(in) ==
    /\ FormValid(in)
    /\ Cardinality(items.rows) < MaxItems
    /\ \E fail_get \in BOOLEAN, fail_add \in BOOLEAN, id \in Ids \ ItemIds(items) :
         LET d  == ItemData(id, PricedFrame(in, GetSettings(settings, fail_get)))
             ok == AddItemOk(items, d, fail_add)
         IN  /\ items' = IF ok THEN [items EXCEPT !.rows = AddItemRows(items, d, now)]
                               ELSE items
             /\ last' = Call("add_item", d, ok)
    /\ UNCHANGED <<settings, now, written, ct, cv, rate_cache>>

add_item(d) ==
    /\ Cardinality(items.rows) < MaxItems
    /\ \E fail \in BOOLEAN :
         LET ok == AddItemOk(items, d, fail)
         IN  /\ items' = IF ok THEN [items EXCEPT !.rows = AddItemRows(items, d, now)]
                               ELSE items
             /\ last' = Call("add_item", d, ok)
    /\ UNCHANGED <<settings, now, written, ct, cv, rate_cache>>

get_all_items ==
    /\ \E fail \in BOOLEAN :
         \E df \in GetAllItems(items, fail) :
            last' = Call("get_all_items", ~ItemsCallOk(items, fail), df)
    /\ UNCHANGED <<settings, items, now, written, ct, cv, rate_cache>>

\* The item list and the summary of one run of calculator_tab: get_all_items,
\* get_settings, and the three amounts shown.
summary ==
    /\ \E fail_items \in BOOLEAN, fail_settings \in BOOLEAN :
         \E items_df \in GetAllItems(items, fail_items) :
            LET s == GetSettings(settings, fail_settings)
            IN  last' = Call("summary",
                             [items_df |-> items_df, settings |-> s,
                              read |-> ItemsCallOk(items, fail_items)],
                             Summarize(items_df, s))
    /\ UNCHANGED <<settings, items, now, written, ct, cv, rate_cache>>

update_item_field(item_id, field, value) ==
    /\ \E fail \in BOOLEAN :
         LET ok == UpdateItemFieldOk(items, item_id, field, value, fail)
         IN  /\ items' =
                    IF ok
                    THEN [items EXCEPT
                            !.rows = UpdateItemFieldRows(items, item_id, field, value, now)]
                    ELSE items
             /\ last' = Call("update_item_field", <<item_id, field, value>>, ok)
    /\ UNCHANGED <<settings, now, written, ct, cv, rate_cache>>

delete_item(item_id) ==
    /\ \E fail \in BOOLEAN :
         LET ok == ItemsCallOk(items, fail)
         IN  /\ items' = IF ok THEN [items EXCEPT !.rows = DeleteItemRows(items, item_id)]
                               ELSE items
             /\ last' = Call("delete_item", item_id, ok)
    /\ UNCHANGED <<settings, now, written, ct, cv, rate_cache>>

clear_all_items ==
    /\ \E fail \in BOOLEAN :
         LET ok == ItemsCallOk(items, fail)
         IN  /\ items' = IF ok THEN [items EXCEPT !.rows = {}] ELSE items
             /\ last' = Call("clear_all_items", 0, ok)
    /\ UNCHANGED <<settings, now, written, ct, cv, rate_cache>>

\* A second passes: CURRENT_TIMESTAMP moves on.
tick ==
    /\ now < MaxClock
    /\ now' = now + 1
    /\ UNCHANGED <<settings, items, last, written, ct, cv, rate_cache>>

\* The database file does not exist yet.
Init ==
    /\ settings = NoTable
    /\ items = NoTable
    /\ now = 0
    /\ last = Call("start", 0, TRUE)
    /\ written = NoWrite
    /\ ct = CtIdle
    /\ cv = CvIdle
    /\ rate_cache = NoEntry

Next ==
    \/ init_database
    \/ get_settings
    \/ \E t \in StoreTaxRates, r \in StoreRates : update_settings(t, r)
    \/ \E in \in StoreInputs : calculator_tab(in)
    \/ \E d \in StoreItemData : add_item(d)
    \/ get_all_items
    \/ summary
    \/ \E id \in Ids, p \in FieldPatches : update_item_field(id, p[1], p[2])
    \/ \E id \in Ids \cup {UnknownId} : delete_item(id)
    \/ clear_all_items
    \/ tick

Spec == Init /\ [][Next]_vars

-----------------------------------------------------------------------------
(* The rate fetch next to the settings (SpecFetch).                        *)

fetch_real_time_exchange_rate(resps) ==
    /\ LET value == IF rate_cache.held THEN rate_cache.value ELSE FetchRate(resps)
       IN  /\ rate_cache' = Entry(value)
           /\ last' = Call("fetch_real_time_exchange_rate",
                           [cached |-> rate_cache.held, resps |-> resps], value)
    /\ UNCHANGED <<settings, items, now, written, ct, cv>>

\* The ttl of the cache entry runs out.
cache_expires ==
    /\ rate_cache.held
    /\ rate_cache' = NoEntry
    /\ UNCHANGED <<settings, items, now, last, written, ct, cv>>

\* The store as init_database leaves it.
InitFetch ==
    /\ settings = [exists |-> TRUE, rows |-> {DefaultRow}]
    /\ items = [exists |-> TRUE, rows |-> {}]
    /\ now = 0
    /\ last = Call("init_database", 3, TRUE)
    /\ written = NoWrite
    /\ ct = CtIdle
    /\ cv = CvIdle
    /\ rate_cache = NoEntry

NextFetch ==
    \/ \E resps \in ResponseSeqs : fetch_real_time_exchange_rate(resps)
    \/ cache_expires
    \/ \E t \in StoreTaxRates, r \in StoreRates : update_settings(t, r)
    \/ get_settings

SpecFetch == InitFetch /\ [][NextFetch]_vars

-----------------------------------------------------------------------------
(* Properties of the pricing computation (SpecPricing).                    *)

\* x is a whole number of hundredths.
IsCents(x) == x.d > 0 /\ 100 % x.d = 0

Priced == ct.pc \in {"form", "done"}

\* What an amount contributes to the total when USD amounts are converted.
ClaimedPart(currency, amount, rate) ==
    IF amount = None THEN Zero
    ELSE IF currency = "INR" THEN amount
    ELSE RMul(amount, rate)

\* C1: before the delivery charge is added, totalInr is the sum of the INR
\* amounts plus amount * usdToInrRate for each of the three amounts in USD.
C1_TotalInrConvertsUsdAmounts ==
    ct.pc = "delivery" =>
        ct.total_inr =
            RAdd(RAdd(ClaimedPart(ct.in.purchase_currency, ct.in.purchase_price,
                                  ct.settings.usd_to_inr_rate),
                      ClaimedPart(ct.in.additional_cost_currency, ct.in.additional_cost,
                                  ct.settings.usd_to_inr_rate)),
                 ClaimedPart(ct.in.shipping_currency, ct.in.shipping_cost,
                             ct.settings.usd_to_inr_rate))

\* C2: the margin is 50% for totalInr <= 5000, 40% for 5000 < totalInr <= 10000
\* and 30% for totalInr > 10000 (5000.00 -> 50, 5000.01 -> 40, 10000.00 -> 40,
\* 10000.01 -> 30); the 0% fallback is never taken.
C2_MarginTiers ==
    ct.pc \in {"final", "form", "done"} =>
        LET t == ct.total_inr
            m == ct.margin_percent
        IN  /\ m \in {50, 40, 30}
            /\ (m = 50) <=> (t.n <= 5000 * t.d)
            /\ (m = 40) <=> (5000 * t.d < t.n /\ t.n <= 10000 * t.d)
            /\ (m = 30) <=> (10000 * t.d < t.n)
            /\ t = Money(500000) => m = 50
            /\ t = Money(500001) => m = 40
            /\ t = Money(1000000) => m = 40
            /\ t = Money(1000001) => m = 30

C2_Witness ==
    /\ ct.pc = "final"
    /\ ct.total_inr = Money(500001)
    /\ ct.margin_percent = 40

\* C3: marketingBudget is 10% of totalInr, marginValue is totalInr *
\* marginPercent / 100 and finalInrWithBudgetAndMargin is their sum with totalInr.
C3_BudgetMarginFinal ==
    Priced =>
        /\ RMul(ct.marketing_budget, Int2R(10)) = ct.total_inr
        /\ RMul(ct.margin_value, Int2R(100)) = RMul(ct.total_inr, Int2R(ct.margin_percent))
        /\ ct.final_inr_with_budget_and_margin =
               RAdd(ct.total_inr, RAdd(ct.marketing_budget, ct.margin_value))

\* The scenario 4000 + 150 + 1000 INR, 15 USD at 83.25: 6398.75, 639.875,
\* 2559.50, 9598.125.
C3_Witness ==
    /\ Priced
    /\ ct.total_inr = Money(639875)
    /\ ct.marketing_budget = Rat(639875, 1000)
    /\ ct.margin_value = Money(255950)
    /\ ct.final_inr_with_budget_and_margin = Rat(9598125, 1000)

\* C4: finalPriceUsd is finalInrWithBudgetAndMargin / usdToInrRate for a rate
\* > 0 and is 0 for every rate that is zero or negative.
C4_FinalPriceUsdGuarded ==
    Priced =>
        IF RLt(Zero, ct.settings.usd_to_inr_rate)
        THEN RMul(ct.final_price_usd, ct.settings.usd_to_inr_rate) =
                 ct.final_inr_with_budget_and_margin
        ELSE ct.final_price_usd = Zero

\* C5: the step that adds the US delivery charge adds deliveryChargeUS *
\* usdToInrRate to totalInr, whatever the three currencies are.
C5_DeliveryAlwaysAdded ==
    [][ct.pc = "delivery" =>
         /\ ct'.pc = "usd_equiv"
         /\ ct'.total_inr =
                RAdd(ct.total_inr,
                     RMul(ct.in.delivery_charge_us, ct.settings.usd_to_inr_rate))]_vars

\* All three amounts in USD: the total is the delivery charge alone, 15 * 83.25.
C5_Witness ==
    /\ ct.pc = "usd_equiv"
    /\ ct.in.purchase_currency = "USD"
    /\ ct.in.additional_cost_currency = "USD"
    /\ ct.in.shipping_currency = "USD"
    /\ ct.in.delivery_charge_us = Int2R(15)
    /\ ct.total_inr = Money(124875)

\* C6: every monetary derived field of the item_data handed to add_item is a
\* whole number of hundredths.
C6_HandedFieldsRounded ==
    last.op = "add_item" =>
        /\ IsCents(last.arg.final_price)
        /\ IsCents(last.arg.marketing_budget)
        /\ IsCents(last.arg.margin)
        /\ IsCents(last.arg.final_inr_with_budget_and_margin)
        /\ IsCents(last.arg.final_price_usd)

-----------------------------------------------------------------------------
(* Properties of convert_currency (SpecConvert).                           *)

\* C7: for every pair of codes other than (USD, INR) and (INR, USD) the helper
\* returns the amount unchanged, also with rate 0.
C7_PassThrough ==
    (cv.pc # "call" /\ <<cv.from_curr, cv.to_curr>> \notin {<<"USD", "INR">>, <<"INR", "USD">>})
        => /\ cv.kind = "value"
           /\ cv.result = cv.amount

C7_Witness ==
    /\ cv.pc = "returned"
    /\ cv.from_curr = "EUR"
    /\ cv.to_curr = "USD"
    /\ cv.rate = Zero
    /\ cv.amount = Money(1999)
    /\ cv.result = Money(1999)

\* C8: for a rate > 0, USD -> INR and back INR -> USD returns the amount.
C8_RoundTrip ==
    (cv.pc \in {"done", "raised"} /\ cv.back_kind # "none"
        /\ cv.from_curr = "USD" /\ cv.to_curr = "INR" /\ RLt(Zero, cv.rate))
        => /\ cv.back_kind = "value"
           /\ cv.back = cv.amount

C8_Witness ==
    /\ cv.pc = "done"
    /\ cv.from_curr = "USD"
    /\ cv.to_curr = "INR"
    /\ cv.rate = Money(8325)
    /\ cv.amount = Money(1999)
    /\ cv.result = Rat(1999 * 333, 400)
    /\ cv.back = Money(1999)

\* C9: INR -> USD with a rate that is not strictly positive never returns a
\* quotient: it raises the division error or returns 0.
C9_NoQuotientForNonPositiveRate ==
    (cv.pc # "call" /\ cv.from_curr = "INR" /\ cv.to_curr = "USD" /\ RLe(cv.rate, Zero))
        => \/ cv.kind = "ZeroDivisionError"
           \/ cv.kind = "value" /\ cv.result = Zero

-----------------------------------------------------------------------------
(* Properties of the store (Spec).                                         *)

WrittenSettings ==
    [tax_rate |-> written.tax_rate, usd_to_inr_rate |-> written.usd_to_inr_rate]

\* C10: after an update_settings that returned True, the next get_settings
\* returns exactly the values written, whatever item calls came in between.
C10_RoundTrip ==
    (last.op = "get_settings" /\ written.done) => last.ret = WrittenSettings

\* The law does hold for an update_settings that found the settings row and
\* a get_settings whose read did not fail.
SettingsRoundTripWhenRead ==
    (last.op = "get_settings" /\ ~last.arg /\ written.done /\ written.matched)
        => last.ret = WrittenSettings

\* The settings table holds exactly one record, and its id is 1.
OneSettingsRecord ==
    /\ Cardinality(settings.rows) = 1
    /\ \A r \in settings.rows : r.id = 1

\* C11: an init_database that returns True leaves exactly one settings record
\* (id = 1), and no later call, a repeated init_database and update_settings
\* included, adds or removes a row: every state reached after it has exactly
\* one record.
C11_OneSettingsRecord ==
    [][/\ (last'.op = "init_database" /\ last'.ret = TRUE) => OneSettingsRecord'
       /\ OneSettingsRecord => OneSettingsRecord']_vars

\* A repeated init_database on a record that update_settings has rewritten.
C11_Witness ==
    /\ last.op = "init_database" /\ last.ret = TRUE
    /\ written.done /\ written.matched
    /\ OneSettingsRecord
    /\ settings.rows # {DefaultRow}

\* C12: get_settings returns the defaults {8.25, 83.25} whenever no record
\* with id 1 exists, whenever the connection cannot be opened and whenever the
\* read raises; in every case it returns a pair of numbers.
C12_DefaultsOnMissingOrFailure ==
    last.op = "get_settings" =>
        /\ DOMAIN last.ret = {"tax_rate", "usd_to_inr_rate"}
        /\ last.ret.tax_rate # None /\ last.ret.usd_to_inr_rate # None
        /\ (last.arg \/ SettingsRow1(settings) = {}) => last.ret = DefaultSettings

\* A failed read of a table whose record holds other values than the defaults.
C12_Witness ==
    /\ last.op = "get_settings" /\ last.arg
    /\ settings.exists
    /\ SettingsRow1(settings) # {}
    /\ settings.rows # {DefaultRow}
    /\ last.ret = DefaultSettings

\* C13: a get_all_items that reads the table returns every stored item exactly
\* once, ordered by created_at descending, whatever add_item,
\* update_item_field, delete_item and clear_all_items calls came before; the
\* order of items with equal created_at is left open.
C13_AllItemsNewestFirst ==
    (last.op = "get_all_items" /\ ~last.arg) =>
        /\ Len(last.ret) = Cardinality(items.rows)
        /\ {last.ret[i] : i \in DOMAIN last.ret} = items.rows
        /\ \A i, j \in DOMAIN last.ret :
              i < j => last.ret[i].created_at >= last.ret[j].created_at

\* Two items created at different times, listed newest first.
C13_Witness ==
    /\ last.op = "get_all_items" /\ ~last.arg
    /\ Len(last.ret) = 2
    /\ last.ret[1].created_at > last.ret[2].created_at
    /\ last.ret[1].created_at = last.ret[1].updated_at
    /\ last.ret[2].created_at = last.ret[2].updated_at

\* Two items with equal created_at are listed in either order.
C13_TieListedIdFirst(first) ==
    /\ last.op = "get_all_items" /\ ~last.arg
    /\ Len(last.ret) = 2
    /\ last.ret[1].created_at = last.ret[2].created_at
    /\ last.ret[1].id = first

C13_TieId1First == C13_TieListedIdFirst("id1")

C13_TieId2First == C13_TieListedIdFirst("id2")

\* The store operations that write.
WritingOps ==
    {"add_item", "update_item_field", "delete_item", "clear_all_items",
     "update_settings"}

\* The statement of the call recorded in last' cannot run on the store as it
\* is: its table is missing, the id to insert or to rename to is taken, or
\* the column does not exist.
StatementFails ==
    \/ last'.op \in WritingOps \ {"update_settings"} /\ ~items.exists
    \/ last'.op = "update_settings" /\ ~settings.exists
    \/ last'.op = "add_item" /\ last'.arg.id \in ItemIds(items)
    \/ last'.op = "update_item_field" /\ last'.arg[2] \notin ItemColumns
    \/ /\ last'.op = "update_item_field" /\ last'.arg[2] = "id"
       /\ last'.arg[1] \in ItemIds(items)
       /\ last'.arg[3] \in ItemIds(items) \ {last'.arg[1]}

\* C14: a writing store operation that fails returns False, and a call that
\* returns False leaves the items and the settings exactly as they were.
C14_FailureReturnsFalseAndKeepsStore ==
    [][/\ (last' # last /\ StatementFails) => last'.ret = FALSE
       /\ (last'.op \in WritingOps /\ last'.ret = FALSE)
             => (items' = items /\ settings' = settings)]_vars

\* A failed update_item_field (no such column) on a store that holds an item
\* and a rewritten settings record.
C14_Witness ==
    /\ last.op = "update_item_field" /\ last.ret = FALSE
    /\ last.arg[2] = "no_such_column"
    /\ last.arg[1] \in ItemIds(items)
    /\ written.done /\ written.matched

\* The columns computed by the pricing and the columns the pricing reads.
DerivedFields ==
    {"final_price", "marketing_budget", "margin", "margin_type",
     "final_inr_with_budget_and_margin", "final_price_usd"}

PriceFields ==
    {"price", "price_currency", "shipping", "shipping_currency",
     "additional_cost", "additional_cost_currency", "delivery_charge_us"}

Derived(r) == [f \in DerivedFields |-> r[f]]

\* What the pricing gives for the stored inputs of row r under the stored
\* settings.
Repriced(r) ==
    PricedFrame([item_name |-> r.name,
                 purchase_price |-> r.price, purchase_currency |-> r.price_currency,
                 additional_cost |-> r.additional_cost,
                 additional_cost_currency |-> r.additional_cost_currency,
                 shipping_cost |-> r.shipping, shipping_currency |-> r.shipping_currency,
                 delivery_charge_us |-> r.delivery_charge_us,
                 submitted |-> TRUE],
                GetSettings(settings, FALSE))

\* C15: update_settings, and update_item_field on a column the pricing reads,
\* leave the derived columns of every stored item as add_item wrote them.
C15_DerivedFieldsFixed ==
    [][/\ last'.op = "update_settings" =>
             \A r \in items.rows : \E q \in items'.rows :
                 q.id = r.id /\ Derived(q) = Derived(r)
       /\ (last'.op = "update_item_field" /\ last'.arg[2] \in PriceFields) =>
             \A r \in items.rows : \E q \in items'.rows :
                 q.id = r.id /\ Derived(q) = Derived(r)]_vars

\* An item whose price was changed to 5000 and whose settings were rewritten
\* keeps the final_price 6398.75 computed from 4000 at the rate 83.25, which
\* is not what the pricing gives for its stored inputs.
C15_Witness ==
    /\ written.done /\ written.matched
    /\ \E r \in items.rows :
          /\ r.price = Money(500000)
          /\ r.final_price = Money(639875)
          /\ r.final_price # Repriced(r).total_inr
          /\ r.final_price_usd # Repriced(r).final_price_usd

\* C16: from the add_item that creates an item until the delete_item or
\* clear_all_items that removes it, every step keeps the item's id and
\* created_at.
C16_IdAndCreatedAtImmutable ==
    [][\A r \in items.rows :
          \/ last'.op = "clear_all_items"
          \/ last'.op = "delete_item" /\ last'.arg = r.id
          \/ \E q \in items'.rows : q.id = r.id /\ q.created_at = r.created_at]_vars

\* The sum of final_price over a set of rows.
RECURSIVE TotalOf(_)
TotalOf(rows) ==
    IF rows = {} THEN Zero
    ELSE LET r == CHOOSE r \in rows : TRUE
         IN  RAdd(r.final_price, TotalOf(rows \ {r}))

\* C17: the summary shows subtotal = the sum of final_price over the items
\* listed (all stored items when the list was read), tax_amount = subtotal *
\* tax_rate / 100 and total = subtotal + tax_amount; with no item all three
\* are 0.
C17_Summary ==
    last.op = "summary" =>
        LET listed == {last.arg.items_df[i] : i \in DOMAIN last.arg.items_df}
        IN  /\ last.ret.subtotal = TotalOf(listed)
            /\ last.arg.read => last.ret.subtotal = TotalOf(items.rows)
            /\ RMul(last.ret.tax_amount, Int2R(100))
                   = RMul(last.ret.subtotal, last.arg.settings.tax_rate)
            /\ last.ret.total = RAdd(last.ret.subtotal, last.ret.tax_amount)
            /\ listed = {} =>
                   /\ last.ret.subtotal = Zero
                   /\ last.ret.tax_amount = Zero
                   /\ last.ret.total = Zero

\* Two items of 6398.75 each at a tax rate of 5: 12797.50, 639.875, 13437.375.
C17_Witness ==
    /\ last.op = "summary" /\ last.arg.read
    /\ Cardinality(items.rows) = 2
    /\ last.arg.settings.tax_rate = Money(500)
    /\ last.ret.subtotal = Money(1279750)
    /\ last.ret.tax_amount = Rat(639875, 1000)
    /\ last.ret.total = Rat(13437375, 1000)

\* The summary of a store without items.
C17_EmptySummary ==
    /\ last.op = "summary" /\ last.arg.read
    /\ items.rows = {}
    /\ last.ret = [subtotal |-> Zero, tax_amount |-> Zero, total |-> Zero]

-----------------------------------------------------------------------------
(* Properties of the rate fetch (SpecFetch).                               *)

\* C18: a fetch that runs makes one request: whenever the answer to it is a
\* failure (the request raises, a status other than 200, no INR rate, an INR
\* rate that is not a number) the fetch returns None, whatever a second
\* request would have got; and no fetch changes the stored settings, so the
\* rate get_settings hands to the pricing is the one stored before.
C18_SingleAttemptNoneOnFailure ==
    [][last'.op = "fetch_real_time_exchange_rate" =>
          /\ settings' = settings
          /\ GetSettings(settings', FALSE) = GetSettings(settings, FALSE)
          /\ (last' # last /\ ~last'.arg.cached /\ last'.arg.resps[1].kind # "rate")
                => last'.ret = None]_vars

\* A fetch whose request fails while a second request would have got a rate,
\* on a store whose rate update_settings has set to 80.
C18_Witness ==
    /\ last.op = "fetch_real_time_exchange_rate"
    /\ ~last.arg.cached
    /\ last.arg.resps[1].kind = "exception"
    /\ last.arg.resps[2].kind = "rate"
    /\ last.ret = None
    /\ rate_cache = Entry(None)
    /\ GetSettings(settings, FALSE).usd_to_inr_rate = Money(8000)

-----------------------------------------------------------------------------
(* Properties of the store, continued (Spec).                              *)

\* C19: whatever update_settings calls were made, the stored usd_to_inr_rate
\* is strictly positive.
C19_StoredRatePositive ==
    \A r \in settings.rows : RLt(Zero, r.usd_to_inr_rate)

\* C20: a delete_item(id) that returns True removes the rows with that id and
\* no other, and leaves the settings as they were; it returns True also for
\* an id no item has.  A clear_all_items that returns True leaves no item and
\* the settings as they were.
C20_DeleteAndClearFrame ==
    [][/\ (last'.op = "delete_item" /\ last'.ret = TRUE) =>
             /\ items'.rows = {r \in items.rows : r.id # last'.arg}
             /\ settings' = settings
       /\ (last'.op = "clear_all_items" /\ last'.ret = TRUE) =>
             /\ items'.rows = {}
             /\ settings' = settings]_vars

\* delete_item of an id no item has returned True, and the stored items are
\* both still there.
C20_Witness ==
    /\ last.op = "delete_item" /\ last.arg = UnknownId /\ last.ret = TRUE
    /\ Cardinality(items.rows) = 2
    /\ written.done /\ written.matched

\* No two stored items share an id.
UniqueIds == \A r, q \in items.rows : r.id = q.id => r = q

\* C21: an add_item whose id is already stored returns False and leaves the
\* items and the settings as they were, and in every state no two stored
\* items share an id.
C21_IdsStayUnique ==
    /\ UniqueIds
    /\ [][/\ (last' # last /\ last'.op = "add_item"
                 /\ last'.arg.id \in ItemIds(items))
                => /\ last'.ret = FALSE
                   /\ items' = items
                   /\ settings' = settings
          /\ UniqueIds']_vars

\* A refused add_item: the id is stored, and the stored item, priced at
\* another rate than the one offered, is as it was.
C21_Witness ==
    /\ last.op = "add_item" /\ last.ret = FALSE
    /\ Cardinality(items.rows) = 1
    /\ \E r \in items.rows :
          /\ r.id = last.arg.id
          /\ r.final_price # last.arg.final_price

====
